---- MODULE Spec2Model ----
(***************************************************************************)
(* Model of the HTML -> change-list core of sc2patches:                    *)
(*   normalize_html_to_tree   (src/src/sc2patches/normalize.py)            *)
(*   UnifiedParser            (src/src/sc2patches/parsers/unified.py)      *)
(*   detect_pattern           (src/src/sc2patches/parsers/base.py)         *)
(*   the pattern parsers      (src/src/sc2patches/parsers/*.py)            *)
(*                                                                         *)
(* The normalizer is a loop over the children of the blog section.  One   *)
(* action models one iteration of that loop (one heading, one paragraph), *)
(* and for a list one iteration of the loop over its top-level items.     *)
(* Items that follow each other belong to one list; the normalizer keeps  *)
(* no state per list, so list boundaries do not show in the tree.         *)
(* The tree is a store of NormalizedItem objects addressed by reference   *)
(* (index into nodes), as in Python; 0 stands for None.                   *)
(* Texts are strings; every test on a text is computed on its characters. *)
(***************************************************************************)
EXTENDS Integers, Sequences, FiniteSets, TLC

VARIABLES
    blog,             \* does the page hold <section class="blog">
    doc,              \* the elements of the blog section visited so far
    nodes,            \* object store: every NormalizedItem created so far
    root_items,       \* normalize.py:46
    current_section,  \* normalize.py:47 (reference into nodes, 0 = None)
    current_race,     \* normalize.py:48
    current_entity,   \* normalize.py:49
    pc,               \* "normalize" while the loop runs, "extract" after it
    runs,             \* results of the successive extraction passes
    logs,             \* per pass: what happened at every visited node
    detected,         \* the value returned by detect_pattern, None before
    parsed,           \* per pattern parser: can_parse and parse of the page
    call,             \* the last call of a pure function: name, input, result
    units_db,         \* the catalog held by the parser instance
    parses,           \* documents the instance has parsed before this one
    html_dir,         \* the stems of the files of data/raw_html
    logger,           \* what PipelineLogger has recorded, in order
    selected,         \* the last call of find_html_files_for_patch
    skip_existing,    \* the --skip-existing flag of the download run
    next_patch        \* the position of main's loop over the patches

vars == <<blog, doc, nodes, root_items, current_section, current_race,
          current_entity, pc, runs, logs, detected, parsed, call,
          units_db, parses, html_dir, logger, selected,
                   skip_existing, next_patch>>

----------------------------------------------------------------------------
(* Bounds *)

MaxElems == 3      \* elements (headings, paragraphs, list items) per document
MaxItems == 1      \* items in a nested list of enumerated labelled items
MaxRuns  == 2      \* extraction passes over one tree
MaxWords == 2      \* words of a text handed to a pure function
MaxDocs  == 2      \* documents parsed by one parser instance

----------------------------------------------------------------------------
(* Strings *)

LowerAlpha == "abcdefghijklmnopqrstuvwxyz"
UpperAlpha == "ABCDEFGHIJKLMNOPQRSTUVWXYZ"

Char(s, i) == SubSeq(s, i, i)

Letters(a) == {Char(a, i) : i \in 1..26}

\* str.upper() and str.lower() on one character
UpperOf == [c \in Letters(LowerAlpha) |->
              Char(UpperAlpha, CHOOSE i \in 1..26 : Char(LowerAlpha, i) = c)]
LowerOf == [c \in Letters(UpperAlpha) |->
              Char(LowerAlpha, CHOOSE i \in 1..26 : Char(UpperAlpha, i) = c)]

UpChar(c)  == IF c \in DOMAIN UpperOf THEN UpperOf[c] ELSE c
LowChar(c) == IF c \in DOMAIN LowerOf THEN LowerOf[c] ELSE c

\* Python: s.upper(), s.lower()
RECURSIVE ToUpper(_)
ToUpper(s) == IF s = "" THEN "" ELSE UpChar(Head(s)) \o ToUpper(Tail(s))

RECURSIVE ToLower(_)
ToLower(s) == IF s = "" THEN "" ELSE LowChar(Head(s)) \o ToLower(Tail(s))

\* Python: k in s
Contains(s, k) ==
    \E i \in 1..(Len(s) - Len(k) + 1) : SubSeq(s, i, i + Len(k) - 1) = k

\* Python: s.startswith(k)
StartsWith(s, k) == Len(k) <= Len(s) /\ SubSeq(s, 1, Len(k)) = k

\* Python: s.endswith(k)
EndsWith(s, k) == Len(k) <= Len(s) /\ SubSeq(s, Len(s) - Len(k) + 1, Len(s)) = k

RECURSIVE LStrip(_)
LStrip(s) == IF s /= "" /\ Head(s) = " " THEN LStrip(Tail(s)) ELSE s

RECURSIVE RStrip(_)
RStrip(s) ==
    IF s /= "" /\ Char(s, Len(s)) = " "
    THEN RStrip(SubSeq(s, 1, Len(s) - 1)) ELSE s

\* Python: s.strip()
Strip(s) == RStrip(LStrip(s))

----------------------------------------------------------------------------
(* The document: what the normalizer reads *)

\* A list item: an optional <strong> label, its own text, an optional nested
\* list.  strong and ul are sequences of length 0 (absent) or 1.
Plain(t)       == [strong |-> <<>>,  text |-> t,  ul |-> <<>>]
Labeled(s, is) == [strong |-> <<s>>, text |-> "", ul |-> <<is>>]
Bare(t, is)    == [strong |-> <<>>,  text |-> t,  ul |-> <<is>>]
Emph(s, t)     == [strong |-> <<s>>, text |-> t,  ul |-> <<>>]

\* concatenation of the stripped, non-empty strings of a sequence of items
RECURSIVE get_text(_)
RECURSIVE get_text_items(_)
get_text(li) ==
    (IF li.strong = <<>> THEN "" ELSE Strip(li.strong[1]))
    \o Strip(li.text)
    \o (IF li.ul = <<>> THEN "" ELSE get_text_items(li.ul[1]))
get_text_items(is) ==
    IF is = <<>> THEN "" ELSE get_text(Head(is)) \o get_text_items(Tail(is))

\* li.find("strong"): the first <strong> among the descendants, in document
\* order; <<>> when there is none
RECURSIVE find_strong(_)
RECURSIVE find_strong_items(_)
find_strong(li) ==
    IF li.strong /= <<>> THEN <<Strip(li.strong[1])>>
    ELSE IF li.ul = <<>> THEN <<>>
    ELSE find_strong_items(li.ul[1])
find_strong_items(is) ==
    IF is = <<>> THEN <<>>
    ELSE IF find_strong(Head(is)) /= <<>> THEN find_strong(Head(is))
    ELSE find_strong_items(Tail(is))

\* li.find("ul"): the first nested list; <<>> when there is none
find_ul(li) == li.ul

----------------------------------------------------------------------------
(* The tree: NormalizedItem objects in a store *)

\* normalize.py:9-16; src is the place of the element in the document
\* (element number, then item numbers in the nested lists), kept to compare
\* the order of the output with the order of the document
NormalizedItem(type, text, level, src) ==
    [type |-> type, text |-> text, children |-> <<>>, level |-> level,
     src |-> src]

\* normalize.py:52
race_names == {"Terran", "Protoss", "Zerg", "TERRAN", "PROTOSS", "ZERG"}

\* normalize.py:96
h3_section_keywords ==
    {"BUG", "FIX", "CO-OP", "COOP", "GENERAL", "QUALITY OF LIFE", "BALANCE"}

\* normalize.py:180-190
li_section_keywords ==
    {"BUG", "FIX", "CO-OP", "COOP", "GENERAL", "QUALITY OF LIFE",
     "BALANCE UPDATE", "BALANCE", "MAPS"}

\* normalize.py:137
MaxLabelLen == 50

\* h is the pair of the store and the root list.  parent.children.append(x)
\* for a freshly built x; parent = 0 is root_items.append(x).
AddItem(h, parent, item) ==
    LET id == Len(h.nodes) + 1
        ns == Append(h.nodes, item)
    IN  IF parent = 0
        THEN [nodes |-> ns, root |-> Append(h.root, id)]
        ELSE [nodes |-> [ns EXCEPT ![parent].children = Append(@, id)],
              root  |-> h.root]

\* a new entity hung under the open entity when there is one
EntityParent_nested ==
    IF current_entity /= 0 THEN current_entity
    ELSE IF current_race /= 0 THEN current_race
    ELSE IF current_section /= 0 THEN current_section
    ELSE 0

\* the parent of a new entity (normalize.py:107-112, 120-125, 153-158,
\* 283-288, 311-316)
EntityParent ==
    IF current_race /= 0 THEN current_race
    ELSE IF current_section /= 0 THEN current_section
    ELSE 0

\* the parent of a new race below a heading or label
\* (normalize.py:88-91, 143-146, 248-251) and of a sub-section (196-199)
SectionParent == IF current_section /= 0 THEN current_section ELSE 0

\* a plain list item hung under the item created last, whatever its kind
ChangeParent_last == Len(nodes)

\* the parent of a plain list item (normalize.py:331-338)
ChangeParent ==
    IF current_entity /= 0 THEN current_entity
    ELSE IF current_race /= 0 THEN current_race
    ELSE IF current_section /= 0 THEN current_section
    ELSE 0

\* the loops that turn the items of a nested list into changes of `parent`
\* (normalize.py:229-238, 269-275, 291-297, 319-325)
RECURSIVE AddChanges(_, _, _, _, _)
AddChanges(h, parent, is, i, path) ==
    IF i > Len(is) THEN h
    ELSE LET change_text == get_text(is[i])
             h1 == IF change_text /= ""
                   THEN AddItem(h, parent,
                          NormalizedItem("change", change_text, 3, path \o <<i>>))
                   ELSE h
         IN  AddChanges(h1, parent, is, i + 1, path)

\* the loops that turn the labelled items of a race's list into entities
\* (normalize.py:217-238, 256-275); items without label and list are passed
RECURSIVE AddEntities(_, _, _, _, _)
AddEntities(h, race, is, i, path) ==
    IF i > Len(is) THEN h
    ELSE LET entity_strong == find_strong(is[i])
             entity_ul     == find_ul(is[i])
             h1 == IF entity_strong /= <<>> /\ entity_ul /= <<>>
                   THEN AddChanges(
                          AddItem(h, race,
                            NormalizedItem("entity", entity_strong[1], 2,
                                           path \o <<i>>)),
                          Len(h.nodes) + 1, entity_ul[1], 1, path \o <<i>>)
                   ELSE h
         IN  AddEntities(h1, race, is, i + 1, path)

\* the loop over the items of a sub-section's list (normalize.py:202-238):
\* only labelled items whose label is a race name are taken
RECURSIVE AddRaces(_, _, _, _, _)
AddRaces(h, section, is, i, path) ==
    IF i > Len(is) THEN h
    ELSE LET nested_strong    == find_strong(is[i])
             nested_nested_ul == find_ul(is[i])
             h1 == IF /\ nested_strong /= <<>> /\ nested_nested_ul /= <<>>
                      /\ nested_strong[1] \in race_names
                   THEN AddEntities(
                          AddItem(h, section,
                            NormalizedItem("race", nested_strong[1], 1,
                                           path \o <<i>>)),
                          Len(h.nodes) + 1, nested_nested_ul[1], 1,
                          path \o <<i>>)
                   ELSE h
         IN  AddRaces(h1, section, is, i + 1, path)

----------------------------------------------------------------------------
(* Inputs: the elements a document is made of *)

SeqsUpTo(S, n) == UNION {[1..k -> S] : k \in 1..n}

H2Texts == {"Terran", "ZERG", "Bug Fixes", "Co-op"}
H3Texts == {"Terran", "terran", "Bug Fixes", "Versus"}
H4Texts == {"Marine", "Marauder"}
\* the <b> of a paragraph: absent, or its text
PLabels == {<<>>, <<"Terran">>, <<"Marine">>}

\* items without a nested list
PlainItems ==
    {Plain(""), Plain("hp +1"), Plain("Marine hp +1"),
     Emph("Terran", " Marine hp +1"), Plain("Marine icon"),
     Plain("fixed a bug"), Plain("Terran")}

\* the items of a nested list of changes
NestedItems == {Plain("range +1"), Plain(""), Plain("Terran")}

\* an entity label that is not in the catalog, over a list of changes
EntityItems == {Labeled("Cyclone", is) : is \in SeqsUpTo(NestedItems, MaxItems)}

\* a race label over a list with a labelled and a plain item
RaceItem ==
    Labeled("Terran", <<Labeled("Marine", <<Plain("hp +1")>>), Plain("hp +1")>>)

RaceItems == {RaceItem}

\* a section label over a list with a race and a plain item
SectionItems == {Labeled(l, <<RaceItem, Plain("hp +1")>>) : l \in {"Bug Fixes", "Balance"}}

BareItems == {Bare("Marine", <<Plain("hp +1")>>), Bare("", <<Plain("hp +1")>>)}

ListItems == PlainItems \cup EntityItems \cup RaceItems \cup SectionItems
             \cup BareItems

\* the children of the blog section.  The label of a paragraph is a <b>
\* element (the legacy layout <p><b>Name</b></p>); the labels inside list
\* items are <strong> elements.
Heading(name, text) == [name |-> name, text |-> text, b |-> <<>>, item |-> <<>>]
Paragraph(label)    == [name |-> "p", text |-> "", b |-> label, item |-> <<>>]
ListItem(li)        == [name |-> "li", text |-> "", b |-> <<>>, item |-> <<li>>]

----------------------------------------------------------------------------
(* The catalog and the keyword lists of the extractor *)

\* the records of the catalog file (display names are unique)
Catalog ==
    {[race |-> "terran", name |-> "Marine",    id |-> "terran-marine"],
     [race |-> "terran", name |-> "Marauder",  id |-> "terran-marauder"],
     [race |-> "terran", name |-> "Mine",       id |-> "terran-mine"],
     [race |-> "terran", name |-> "Widow Mine", id |-> "terran-widow_mine"],
     [race |-> "zerg",   name |-> "Hydralisk", id |-> "zerg-hydralisk"]}

\* unified.py:151-162
ui_patterns ==
    {"button", "tab-select", "icon", "wireframe", "tooltip", "sound",
     "graphic", "particle effect", "visual animation", "cosmetic"}

\* unified.py:171-177
bug_fix_patterns ==
    {"fixed an issue", "fixed a display issue", "fixed a bug",
     "fixed multiple", "fixed various"}

\* any(keyword in s for keyword in kws)
ContainsAny(s, kws) == \E k \in kws : Contains(s, k)

----------------------------------------------------------------------------
(* normalize_html_to_tree: one action per iteration of its loops *)

Heap == [nodes |-> nodes, root |-> root_items]

\* normalize.py:42-44: without the blog section the loop is never entered
Visiting == blog /\ pc = "normalize" /\ Len(doc) < MaxElems

\* what every iteration leaves alone
Step(el, h, cs, cr, ce) ==
    /\ doc' = Append(doc, el)
    /\ nodes' = h.nodes
    /\ root_items' = h.root
    /\ current_section' = cs
    /\ current_race' = cr
    /\ current_entity' = ce
    /\ UNCHANGED <<blog, pc, runs, logs, detected, parsed, call,
                   units_db, parses, html_dir, logger, selected,
                   skip_existing, next_patch>>

\* normalize.py:62-78
VisitH2(t) ==
    /\ Visiting
    /\ LET text == Strip(t)
           id   == Len(nodes) + 1
           src  == <<Len(doc) + 1>>
       IN  IF text \in race_names
           THEN Step(Heading("h2", t),
                     AddItem(Heap, 0, NormalizedItem("race", text, 1, src)),
                     current_section, id, 0)
           ELSE Step(Heading("h2", t),
                     AddItem(Heap, 0, NormalizedItem("section", text, 0, src)),
                     id, 0, 0)

\* normalize.py:81-113
VisitH3(t) ==
    /\ Visiting
    /\ LET text == Strip(t)
           text_upper == ToUpper(text)
           id   == Len(nodes) + 1
           src  == <<Len(doc) + 1>>
       IN  IF text \in race_names
           THEN Step(Heading("h3", t),
                     AddItem(Heap, SectionParent,
                             NormalizedItem("race", text, 1, src)),
                     current_section, id, 0)
           ELSE IF ContainsAny(text_upper, h3_section_keywords)
           THEN Step(Heading("h3", t),
                     AddItem(Heap, 0, NormalizedItem("section", text, 0, src)),
                     id, 0, 0)
           ELSE Step(Heading("h3", t),
                     AddItem(Heap, EntityParent,
                             NormalizedItem("entity", text, 2, src)),
                     current_section, current_race, id)

\* normalize.py:116-126
VisitH4(t) ==
    /\ Visiting
    /\ LET text == Strip(t)
           id   == Len(nodes) + 1
           src  == <<Len(doc) + 1>>
       IN  Step(Heading("h4", t),
                AddItem(Heap, EntityParent,
                        NormalizedItem("entity", text, 2, src)),
                current_section, current_race, id)

\* normalize.py:129-159
VisitP(label) ==
    /\ Visiting
    /\ LET id   == Len(nodes) + 1
           src  == <<Len(doc) + 1>>
           text == IF label = <<>> THEN "" ELSE Strip(label[1])
       IN  IF label /= <<>> /\ text /= "" /\ Len(text) < MaxLabelLen
           THEN IF text \in race_names
                THEN Step(Paragraph(label),
                          AddItem(Heap, SectionParent,
                                  NormalizedItem("race", text, 1, src)),
                          current_section, id, 0)
                ELSE Step(Paragraph(label),
                          AddItem(Heap, EntityParent,
                                  NormalizedItem("entity", text, 2, src)),
                          current_section, current_race, id)
           ELSE Step(Paragraph(label), Heap,
                     current_section, current_race, current_entity)

\* normalize.py:163-338, one item of a top-level list
VisitLi(li) ==
    /\ Visiting
    /\ LET el        == ListItem(li)
           text      == get_text(li)
           strong    == find_strong(li)
           nested_ul == find_ul(li)
           id        == Len(nodes) + 1
           src       == <<Len(doc) + 1>>
           same(h)   == Step(el, h, current_section, current_race, current_entity)
       IN  IF text = "" THEN same(Heap)
           ELSE IF strong /= <<>> /\ nested_ul /= <<>>
           THEN LET item_text == strong[1]
                    item_text_upper == ToUpper(item_text)
                IN  IF ContainsAny(item_text_upper, li_section_keywords)
                    THEN same(AddRaces(
                            AddItem(Heap, SectionParent,
                                    NormalizedItem("section", item_text, 0, src)),
                            id, nested_ul[1], 1, src))
                    ELSE IF item_text \in race_names
                    THEN Step(el,
                              AddEntities(
                                AddItem(Heap, SectionParent,
                                        NormalizedItem("race", item_text, 1, src)),
                                id, nested_ul[1], 1, src),
                              current_section, id, 0)
                    ELSE same(AddChanges(
                            AddItem(Heap, EntityParent,
                                    NormalizedItem("entity", item_text, 2, src)),
                            id, nested_ul[1], 1, src))
           ELSE IF nested_ul /= <<>>
           THEN LET entity_text == Strip(li.text)
                IN  IF li.text /= "" /\ entity_text /= ""
                    THEN same(AddChanges(
                            AddItem(Heap, EntityParent,
                                    NormalizedItem("entity", entity_text, 2, src)),
                            id, nested_ul[1], 1, src))
                    ELSE same(Heap)
           ELSE same(AddItem(Heap, ChangeParent,
                             NormalizedItem("change", text, 3, src)))

----------------------------------------------------------------------------
(* The entity catalog *)

None == "None"

\* models.py:37-43
Races == {"terran", "zerg", "protoss", "neutral"}

\* the names of a faction found in the text, whatever the letter case
NamesIn(text, race) ==
    LET text_lower == ToLower(text)
    IN  {e \in units_db : e.race = race /\ Contains(text_lower, ToLower(e.name))}

\* resolve with the shortest name found instead of the longest
detect_entity_from_text_shortest(text, race) ==
    LET found == NamesIn(text, race)
    IN  IF found = {} THEN race \o "-unknown"
        ELSE (CHOOSE e \in found :
                \A f \in found : Len(e.name) <= Len(f.name)).id

\* resolve: the longest name of the faction found in the text, or the
\* faction's sentinel
detect_entity_from_text(text, race) ==
    LET found == NamesIn(text, race)
    IN  IF found = {} THEN race \o "-unknown"
        ELSE (CHOOSE e \in found :
                \A f \in found : Len(f.name) <= Len(e.name)).id

----------------------------------------------------------------------------
(* UnifiedParser *)

\* models.py:104-111
VERSUS_BALANCE == "versus/balance"
COOP           == "coop"
GENERAL        == "general"
BUG_FIXES      == "bug_fixes"
UNKNOWN        == "unknown"

\* the same tests with the balance keywords looked for first
detect_section_type_balance_first(text) ==
    LET text_upper == ToUpper(text)
    IN  IF Contains(text_upper, "VERSUS") \/ Contains(text_upper, "BALANCE")
        THEN VERSUS_BALANCE
        ELSE IF Contains(text_upper, "BUG") \/ Contains(text_upper, "FIX")
        THEN BUG_FIXES
        ELSE IF Contains(text_upper, "CO-OP") \/ Contains(text_upper, "COOP")
        THEN COOP
        ELSE IF Contains(text_upper, "GENERAL")
        THEN GENERAL
        ELSE UNKNOWN

\* unified.py:29-42
detect_section_type(text) ==
    LET text_upper == ToUpper(text)
    IN  IF Contains(text_upper, "BUG") \/ Contains(text_upper, "FIX")
        THEN BUG_FIXES
        ELSE IF Contains(text_upper, "CO-OP") \/ Contains(text_upper, "COOP")
        THEN COOP
        ELSE IF Contains(text_upper, "VERSUS") \/ Contains(text_upper, "BALANCE")
        THEN VERSUS_BALANCE
        ELSE IF Contains(text_upper, "GENERAL")
        THEN GENERAL
        ELSE UNKNOWN

\* unified.py:63-70, in the order of the dictionary
race_map ==
    << <<"Terran", "terran">>, <<"TERRAN", "terran">>,
       <<"Protoss", "protoss">>, <<"PROTOSS", "protoss">>,
       <<"Zerg", "zerg">>, <<"ZERG", "zerg">> >>

\* race_map.get(text)
race_map_get(text) ==
    IF \E i \in 1..Len(race_map) : race_map[i][1] = text
    THEN race_map[CHOOSE i \in 1..Len(race_map) : race_map[i][1] = text][2]
    ELSE None

\* unified.py:136-141: the first name of race_map the text starts with
\* (0 when there is none)
RacePrefix(text) ==
    IF \E i \in 1..Len(race_map) : StartsWith(text, race_map[i][1])
    THEN CHOOSE i \in 1..Len(race_map) :
            /\ StartsWith(text, race_map[i][1])
            /\ \A j \in 1..(i - 1) : ~StartsWith(text, race_map[j][1])
    ELSE 0

\* the section filter with coop let through
KeptSections_coop == {VERSUS_BALANCE, UNKNOWN, GENERAL, COOP}

\* unified.py:195-199: the sections whose changes are kept
KeptSections == {VERSUS_BALANCE, UNKNOWN, GENERAL}

\* unified.py:189-192: the sections in which a neutral entity is kept
NeutralKeptSections == {VERSUS_BALANCE, GENERAL}

\* unified.py:203-209; src is the place of the list item in the document
RawChange(entity_id, raw_text, section, src) ==
    [entity_id |-> entity_id, raw_text |-> raw_text, section |-> section,
     src |-> src]

\* one record of the walk: the context a node was met with, and what
\* became of it
Visit(id, st, fate) ==
    [node |-> id, race |-> st.race, section |-> st.section,
     entity |-> st.entity, fate |-> fate]

\* one Change item, its id always resolved from its own text
ExtractChange_own_text(id, st) ==
    LET p  == IF st.race = None THEN RacePrefix(st.text[id]) ELSE 0
        \* unified.py:134-141
        race1 == IF p /= 0 THEN race_map[p][2] ELSE st.race
        text1 == IF p /= 0
                 THEN Strip(SubSeq(st.text[id], Len(race_map[p][1]) + 1,
                                   Len(st.text[id])))
                 ELSE st.text[id]
        \* unified.py:143-145
        race2 == IF race1 = None THEN "neutral" ELSE race1
        text_lower == ToLower(text1)
        entity_id == detect_entity_from_text(text1, race2)
        st1 == [st EXCEPT !.race = race2, !.text[id] = text1]
        done(fate) == [st1 EXCEPT !.log = @ \cup {Visit(id, st, fate)}]
    IN  IF ContainsAny(text_lower, ui_patterns) THEN done("ui")
        ELSE IF ContainsAny(text_lower, bug_fix_patterns) THEN done("bugtext")
        ELSE IF StartsWith(entity_id, "neutral-")
                /\ st.section \notin NeutralKeptSections THEN done("neutral")
        ELSE IF st.section \notin KeptSections THEN done("section")
        ELSE [done("emit") EXCEPT
                !.changes = Append(@, RawChange(entity_id, text1, st.section,
                                                nodes[id].src))]

\* unified.py:132-209, one Change item.  st holds the local variables of
\* the call (race, section, entity), the texts of the tree's items, and the
\* changes and visits collected so far.
ExtractChange(id, st) ==
    LET p  == IF st.race = None THEN RacePrefix(st.text[id]) ELSE 0
        \* unified.py:134-141
        race1 == IF p /= 0 THEN race_map[p][2] ELSE st.race
        text1 == IF p /= 0
                 THEN Strip(SubSeq(st.text[id], Len(race_map[p][1]) + 1,
                                   Len(st.text[id])))
                 ELSE st.text[id]
        \* unified.py:143-145
        race2 == IF race1 = None THEN "neutral" ELSE race1
        text_lower == ToLower(text1)
        entity_id == IF st.entity /= None THEN st.entity
                     ELSE detect_entity_from_text(text1, race2)
        st1 == [st EXCEPT !.race = race2, !.text[id] = text1]
        done(fate) == [st1 EXCEPT !.log = @ \cup {Visit(id, st, fate)}]
    IN  IF ContainsAny(text_lower, ui_patterns) THEN done("ui")
        ELSE IF ContainsAny(text_lower, bug_fix_patterns) THEN done("bugtext")
        ELSE IF StartsWith(entity_id, "neutral-")
                /\ st.section \notin NeutralKeptSections THEN done("neutral")
        ELSE IF st.section \notin KeptSections THEN done("section")
        ELSE [done("emit") EXCEPT
                !.changes = Append(@, RawChange(entity_id, text1, st.section,
                                                nodes[id].src))]

\* unified.py:118-130: the catalog record whose name is the label
\* (names are unique, so the order of the races does not matter)
LabelMatches(text) == {e \in units_db : e.name = text}

RECURSIVE ExtractItems(_, _, _)
RECURSIVE ExtractItem(_, _)

\* the result of a recursive call comes back into the caller: the caller
\* keeps its own local variables, takes the changes and sees the texts
Back(st, sub, id, fate) ==
    [st EXCEPT !.text = sub.text, !.changes = sub.changes,
               !.log = sub.log \cup {Visit(id, st, fate)}]

\* unified.py:72-209, one iteration of the loop
ExtractItem(id, st) ==
    LET item == nodes[id]
        text == st.text[id]
    IN  CASE item.type = "section" ->
               \* unified.py:73-84
               Back(st, ExtractItems(item.children, 1,
                          [st EXCEPT !.section = detect_section_type(text)]),
                    id, "enter")
          [] item.type = "race" ->
               \* unified.py:86-101
               LET race == race_map_get(text)
                   st1  == IF st.section = UNKNOWN
                           THEN [st EXCEPT !.section = VERSUS_BALANCE]
                           ELSE st
               IN  IF race /= None
                   THEN [Back(st, ExtractItems(item.children, 1,
                                    [st1 EXCEPT !.race = race, !.entity = None]),
                              id, "enter")
                         EXCEPT !.section = st1.section]
                   ELSE [st EXCEPT !.log = @ \cup {Visit(id, st, "skip")}]
          [] item.type = "entity" ->
               \* unified.py:103-130
               IF st.race /= None
               THEN Back(st, ExtractItems(item.children, 1,
                          [st EXCEPT !.entity =
                                detect_entity_from_text(text, st.race)]),
                         id, "enter")
               ELSE IF LabelMatches(text) /= {}
               THEN LET e == CHOOSE e \in LabelMatches(text) : TRUE
                    IN  Back(st, ExtractItems(item.children, 1,
                               [st EXCEPT !.race = e.race, !.entity = e.id]),
                             id, "enter")
               ELSE [st EXCEPT !.log = @ \cup {Visit(id, st, "skip")}]
          [] item.type = "change" -> ExtractChange(id, st)

ExtractItems(items, i, st) ==
    IF i > Len(items) THEN st
    ELSE ExtractItems(items, i + 1, ExtractItem(items[i], st))

\* unified.py:44-50, the call on the root list with the default arguments
extract_changes_from_tree ==
    ExtractItems(root_items, 1,
        [race |-> None, section |-> UNKNOWN, entity |-> None,
         text |-> [n \in 1..Len(nodes) |-> nodes[n].text],
         changes |-> <<>>, log |-> {}])

\* unified.py:213-221 for the first pass (the loop of the normalizer has
\* ended and its tree is returned), and a further call of
\* _extract_changes_from_tree on the same tree for the later ones
Extract ==
    /\ pc \in {"normalize", "extract"}
    /\ Len(runs) < MaxRuns
    /\ \E r \in {extract_changes_from_tree} :
           /\ nodes' = [n \in 1..Len(nodes) |->
                            [nodes[n] EXCEPT !.text = r.text[n]]]
           /\ runs' = Append(runs, r.changes)
           /\ logs' = Append(logs, r.log)
    /\ pc' = "extract"
    /\ UNCHANGED <<blog, doc, root_items, current_section, current_race,
                   current_entity, detected, parsed, call,
                   units_db, parses, html_dir, logger, selected,
                   skip_existing, next_patch>>

----------------------------------------------------------------------------
(* detect_pattern and the pattern parsers: they read the page itself *)

\* element.get_text(strip=True) of a heading or a paragraph
ElemText(el) ==
    IF el.name = "p" THEN (IF el.b = <<>> THEN "" ELSE Strip(el.b[1]))
    ELSE Strip(el.text)

\* base.py:62, 70; direct_h2.py:44, 58; h3_race.py:51, 66
title_race_names == {"Terran", "Protoss", "Zerg"}

\* Race(...) of a race name written as in title_race_names or in capitals
RaceOf(text) == ToLower(text)

\* base.py:80
MaxPEntityLen == 30

\* blog.find_all(name) for a heading: headings are children of the section
HeadingsNamed(name) == {i \in 1..Len(doc) : doc[i].name = name}

\* p.find_next_sibling() is a <ul>
FollowedByList(i) == i < Len(doc) /\ doc[i + 1].name = "li"

\* base.py:60-65 and direct_h2.py:36-46
HasH2Race ==
    \E i \in HeadingsNamed("h2") : ElemText(doc[i]) \in title_race_names

\* base.py:68-73 and h3_race.py:43-53
HasH3Race ==
    \E i \in HeadingsNamed("h3") : ElemText(doc[i]) \in title_race_names

\* base.py:77-83
HasPEntity ==
    \E i \in HeadingsNamed("p") :
        LET text == ElemText(doc[i])
        IN  /\ text /= "" /\ Len(text) < MaxPEntityLen
            /\ ~StartsWith(text, "We")
            /\ FollowedByList(i)

\* base.py:86-88: blog.find_all("strong") is not empty
HasStrong ==
    \E i \in HeadingsNamed("li") : find_strong(doc[i].item[1]) /= <<>>

\* the same tests with the H3 headers looked for before the H2 headers
detect_pattern_h3_first ==
    IF ~blog THEN "no_blog"
    ELSE IF HasH3Race THEN "h3_race"
    ELSE IF HasH2Race THEN "direct_h2"
    ELSE IF HasPEntity THEN "p_entity"
    ELSE IF HasStrong THEN "nested_strong"
    ELSE "unknown"

\* the same tests with nested_strong as the default, whatever the page holds
detect_pattern_default ==
    IF ~blog THEN "no_blog"
    ELSE IF HasH2Race THEN "direct_h2"
    ELSE IF HasH3Race THEN "h3_race"
    ELSE IF HasPEntity THEN "p_entity"
    ELSE "nested_strong"

\* base.py:43-90
detect_pattern ==
    IF ~blog THEN "no_blog"
    ELSE IF HasH2Race THEN "direct_h2"
    ELSE IF HasH3Race THEN "h3_race"
    ELSE IF HasPEntity THEN "p_entity"
    ELSE IF HasStrong THEN "nested_strong"
    ELSE "unknown"

\* p_entity.py:35-48
PEntity_can_parse ==
    \E i \in HeadingsNamed("p") :
        LET text == ElemText(doc[i])
        IN  text /= "" /\ Len(text) < MaxPEntityLen /\ FollowedByList(i)

\* nested_strong.py:42-55: the lists of the page are the top-level lists and
\* the lists nested in their items
RECURSIVE HasLabelOverList(_)
HasLabelOverList(li) ==
    \/ find_strong(li) /= <<>> /\ find_ul(li) /= <<>>
    \/ /\ li.ul /= <<>>
       /\ \E k \in 1..Len(li.ul[1]) : HasLabelOverList(li.ul[1][k])

NestedStrong_can_parse ==
    \E i \in HeadingsNamed("li") : HasLabelOverList(doc[i].item[1])

\* the local variables of a pattern parser's loop
ParserState ==
    [race |-> None, section |-> UNKNOWN, entity |-> None, changes |-> <<>>]

\* changes.append(RawChange(...)) unless the id is one of faction neutral
\* (direct_h2.py:87-97, h3_race.py:122-132)
AppendUnlessNeutral(st, entity_id, text, src) ==
    IF StartsWith(entity_id, "neutral-") THEN st
    ELSE [st EXCEPT !.changes =
              Append(@, RawChange(entity_id, text, st.section, src))]

\* the loop with a race heading that sets the faction and leaves the
\* category as the heading before it set it
DirectH2Step_keep_section(i, st) ==
    LET el == doc[i]
    IN  IF el.name = "h2"
        THEN LET text == ElemText(el)
             IN  IF text \in title_race_names
                 THEN [st EXCEPT !.race = RaceOf(text)]
                 ELSE [st EXCEPT !.section = detect_section_type(text)]
        ELSE IF el.name = "li" /\ st.race /= None
        THEN LET text == get_text(el.item[1])
             IN  IF st.section \notin {VERSUS_BALANCE, UNKNOWN} \/ text = ""
                 THEN st
                 ELSE AppendUnlessNeutral(
                          st, detect_entity_from_text(text, st.race), text, <<i>>)
        ELSE st

\* direct_h2.py:60-97, one iteration of the loop
DirectH2Step(i, st) ==
    LET el == doc[i]
    IN  IF el.name = "h2"
        THEN LET text == ElemText(el)
             IN  IF text \in title_race_names
                 THEN [st EXCEPT !.race = RaceOf(text),
                                 !.section = VERSUS_BALANCE]
                 ELSE [st EXCEPT !.section = detect_section_type(text)]
        ELSE IF el.name = "li" /\ st.race /= None
        THEN LET text == get_text(el.item[1])
             IN  IF st.section \notin {VERSUS_BALANCE, UNKNOWN} \/ text = ""
                 THEN st
                 ELSE AppendUnlessNeutral(
                          st, detect_entity_from_text(text, st.race), text, <<i>>)
        ELSE st

\* h3_race.py:68-132, one iteration of the loop
H3RaceStep(i, st) ==
    LET el == doc[i]
        text == ElemText(el)
    IN  IF el.name = "h2"
        THEN LET section == detect_section_type(text)
             IN  [st EXCEPT !.section = section,
                            !.race = IF section /= VERSUS_BALANCE
                                     THEN None ELSE @]
        ELSE IF el.name = "h3"
        THEN IF text \in title_race_names
             THEN [st EXCEPT !.race = RaceOf(text),
                             !.section = IF @ = UNKNOWN
                                         THEN VERSUS_BALANCE ELSE @,
                             !.entity = None]
             ELSE st
        ELSE IF el.name = "h4" /\ st.race /= None
        THEN [st EXCEPT !.entity = detect_entity_from_text(text, st.race)]
        ELSE IF el.name = "p" /\ st.race /= None
        THEN IF el.b /= <<>>
             THEN [st EXCEPT !.entity = detect_entity_from_text(text, st.race)]
             ELSE st
        ELSE IF el.name = "li" /\ st.race /= None
        THEN LET li_text == get_text(el.item[1])
             IN  IF st.section \notin {VERSUS_BALANCE, UNKNOWN} \/ li_text = ""
                 THEN st
                 ELSE AppendUnlessNeutral(
                          st,
                          IF st.entity /= None THEN st.entity
                          ELSE detect_entity_from_text(li_text, st.race),
                          li_text, <<i>>)
        ELSE st

\* str.replace(" ", "_")
RECURSIVE Underscored(_)
Underscored(s) ==
    IF s = "" THEN ""
    ELSE (IF Head(s) = " " THEN "_" ELSE Head(s)) \o Underscored(Tail(s))

\* p_entity.py:26-29: entity_lookup, from the lower-case name to the record
entity_lookup(name_lower) ==
    {e \in units_db : ToLower(e.name) = name_lower}

\* the same loop without the test that skips the items of a neutral entity
PEntityStep_keep_neutral(i, st) ==
    LET el == doc[i]
    IN  IF el.name = "p"
        THEN LET text == ElemText(el)
                 entity_lower == ToLower(text)
             IN  IF text /= "" /\ Len(text) < MaxPEntityLen
                    /\ ~StartsWith(text, "We")
                 THEN IF entity_lookup(entity_lower) /= {}
                      THEN LET e == CHOOSE e \in entity_lookup(entity_lower) : TRUE
                           IN  [st EXCEPT !.entity = e.id, !.race = e.race]
                      ELSE [st EXCEPT !.race = "neutral",
                                      !.entity = "neutral-"
                                                 \o Underscored(entity_lower)]
                 ELSE st
        ELSE IF el.name = "li" /\ st.entity /= None
        THEN LET text == get_text(el.item[1])
             IN  IF text = "" THEN st
                 ELSE [st EXCEPT !.changes =
                          Append(@, RawChange(st.entity, text, VERSUS_BALANCE,
                                              <<i>>))]
        ELSE st

\* p_entity.py:60-95, one iteration of the loop
PEntityStep(i, st) ==
    LET el == doc[i]
    IN  IF el.name = "p"
        THEN LET text == ElemText(el)
                 entity_lower == ToLower(text)
             IN  IF text /= "" /\ Len(text) < MaxPEntityLen
                    /\ ~StartsWith(text, "We")
                 THEN IF entity_lookup(entity_lower) /= {}
                      THEN LET e == CHOOSE e \in entity_lookup(entity_lower) : TRUE
                           IN  [st EXCEPT !.entity = e.id, !.race = e.race]
                      ELSE [st EXCEPT !.race = "neutral",
                                      !.entity = "neutral-"
                                                 \o Underscored(entity_lower)]
                 ELSE st
        ELSE IF el.name = "li" /\ st.entity /= None
        THEN LET text == get_text(el.item[1])
             IN  IF text = "" \/ StartsWith(st.entity, "neutral-") THEN st
                 ELSE [st EXCEPT !.changes =
                          Append(@, RawChange(st.entity, text, VERSUS_BALANCE,
                                              <<i>>))]
        ELSE st

\* nested_strong.py:67-68, in the order of the dictionary
nested_race_names ==
    <<"Zerg", "Protoss", "Terran", "ZERG", "PROTOSS", "TERRAN">>

\* key in race_names
nested_race_keys == {nested_race_names[k] : k \in 1..Len(nested_race_names)}

\* nested_strong.py:112-118: the first race name the text starts with
\* (0 when there is none)
NestedRacePrefix(text) ==
    IF \E k \in 1..Len(nested_race_names) : StartsWith(text, nested_race_names[k])
    THEN CHOOSE k \in 1..Len(nested_race_names) :
            /\ StartsWith(text, nested_race_names[k])
            /\ \A j \in 1..(k - 1) : ~StartsWith(text, nested_race_names[j])
    ELSE 0

\* nested_strong.py:102-147, one item of the nested list
NestedStrongChange(st, strong_text, nested_li, src) ==
    LET change_text == get_text(nested_li)
        p == IF st.race = None THEN NestedRacePrefix(change_text) ELSE 0
        \* nested_strong.py:109-118
        race1 == IF p /= 0 THEN RaceOf(nested_race_names[p]) ELSE st.race
        clean_text == IF p /= 0
                      THEN SubSeq(change_text, Len(nested_race_names[p]) + 1,
                                  Len(change_text))
                      ELSE change_text
        \* nested_strong.py:121-130
        race2 == IF race1 /= None THEN race1
                 ELSE IF LabelMatches(strong_text) /= {}
                 THEN (CHOOSE e \in LabelMatches(strong_text) : TRUE).race
                 ELSE "neutral"
        \* nested_strong.py:133-139
        from_text   == detect_entity_from_text(clean_text, race2)
        from_strong == detect_entity_from_text(strong_text, race2)
        entity_id == IF /\ EndsWith(from_text, "-unknown")
                        /\ race2 /= "neutral"
                        /\ ~EndsWith(from_strong, "-unknown")
                     THEN from_strong ELSE from_text
    IN  IF change_text = "" THEN st
        ELSE [st EXCEPT !.changes =
                 Append(@, RawChange(entity_id, clean_text, st.section, src))]

RECURSIVE NestedStrongChanges(_, _, _, _, _)
NestedStrongChanges(st, strong_text, is, k, path) ==
    IF k > Len(is) THEN st
    ELSE NestedStrongChanges(
             NestedStrongChange(st, strong_text, is[k], path \o <<k>>),
             strong_text, is, k + 1, path)

\* nested_strong.py:70-147, one iteration of the loop (for a list: of the
\* loop over its items)
NestedStrongStep(i, st) ==
    LET el == doc[i]
        text == ElemText(el)
    IN  IF el.name = "h2"
        THEN [st EXCEPT !.section = detect_section_type(text),
                        !.race = IF text \in nested_race_keys
                                 THEN RaceOf(text) ELSE @]
        ELSE IF el.name = "h3"
        THEN IF text \in nested_race_keys
             THEN [st EXCEPT !.race = RaceOf(text),
                             !.section = IF @ = UNKNOWN
                                         THEN VERSUS_BALANCE ELSE @]
             ELSE st
        ELSE IF el.name = "li"
        THEN LET strong    == find_strong(el.item[1])
                 nested_ul == find_ul(el.item[1])
             IN  IF strong /= <<>> /\ nested_ul /= <<>>
                 THEN NestedStrongChanges(st, strong[1], nested_ul[1], 1, <<i>>)
                 ELSE st
        ELSE st

\* the names of the parser classes (parsers/__init__.py:10-18)
Parsers == {"direct_h2", "h3_race", "p_entity", "nested_strong", "fallback"}

ParserStep(name, i, st) ==
    CASE name = "direct_h2"     -> DirectH2Step(i, st)
      [] name = "h3_race"       -> H3RaceStep(i, st)
      [] name = "p_entity"      -> PEntityStep(i, st)
      [] name = "nested_strong" -> NestedStrongStep(i, st)

\* the loop over blog.children
RECURSIVE ParserLoop(_, _, _)
ParserLoop(name, i, st) ==
    IF i > Len(doc) THEN st
    ELSE ParserLoop(name, i + 1, ParserStep(name, i, st))

\* PatternParser.parse: every parser returns [] for a page without the blog
\* section (direct_h2.py:50-52, h3_race.py:57-59, p_entity.py:52-54,
\* nested_strong.py:59-61), the fallback for every page (fallback.py:25-27)
parse(name) ==
    IF name = "fallback" \/ ~blog THEN <<>>
    ELSE ParserLoop(name, 1, ParserState).changes

\* PatternParser.can_parse
can_parse(name) ==
    CASE name = "fallback"      -> TRUE
      [] name = "direct_h2"     -> blog /\ HasH2Race
      [] name = "h3_race"       -> blog /\ HasH3Race
      [] name = "p_entity"      -> blog /\ PEntity_can_parse
      [] name = "nested_strong" -> blog /\ NestedStrong_can_parse

\* a call of detect_pattern on the page
Detect ==
    /\ pc = "normalize"
    /\ detected' = detect_pattern
    /\ pc' = "detect"
    /\ UNCHANGED <<blog, doc, nodes, root_items, current_section,
                   current_race, current_entity, runs, logs, parsed, call,
                   units_db, parses, html_dir, logger, selected,
                   skip_existing, next_patch>>

\* can_parse and parse of every pattern parser on the page, once its
\* pattern has been detected
PatternParse ==
    /\ pc = "detect"
    /\ parsed' = [name \in Parsers |->
                     [can_parse |-> can_parse(name), changes |-> parse(name)]]
    /\ pc' = "parse"
    /\ UNCHANGED <<blog, doc, nodes, root_items, current_section,
                   current_race, current_entity, runs, logs, detected, call,
                   units_db, parses, html_dir, logger, selected,
                   skip_existing, next_patch>>

----------------------------------------------------------------------------

\* logger.py:29-33: the three lists of a new PipelineLogger
NoLog == [successful |-> <<>>, failed |-> <<>>, skipped |-> <<>>]

\* find_html_files_for_patch has not been called yet
NoFind == [version |-> None, url |-> None, files |-> <<>>]

\* no pure function has been called yet
NoCall == [fn |-> None, arg |-> <<>>, ret |-> None]

\* the parser before its first document
InitParser ==
    /\ blog \in BOOLEAN
    /\ doc = <<>>
    /\ nodes = <<>>
    /\ root_items = <<>>
    /\ current_section = 0
    /\ current_race = 0
    /\ current_entity = 0
    /\ pc = "normalize"
    /\ runs = <<>>
    /\ logs = <<>>
    /\ detected = None
    /\ parsed = <<>>
    /\ call = NoCall
    /\ units_db = Catalog
    /\ parses = 0

\* a parser, with an empty data/raw_html and no download run started
Init ==
    /\ InitParser
    /\ html_dir = {}
    /\ logger = NoLog
    /\ selected = NoFind
    /\ skip_existing = FALSE
    /\ next_patch = 1

Next ==
    \/ \E t \in H2Texts : VisitH2(t)
    \/ \E t \in H3Texts : VisitH3(t)
    \/ \E t \in H4Texts : VisitH4(t)
    \/ \E l \in PLabels : VisitP(l)
    \/ \E li \in ListItems : VisitLi(li)
    \/ Extract
    \/ Detect
    \/ PatternParse

Spec == Init /\ [][Next]_vars

----------------------------------------------------------------------------
(* One parser instance over several documents *)

\* the tree of the previous call, kept for the next one
FreshTree_kept == Heap

\* normalize.py:46: every call starts from an empty root list
FreshTree == [nodes |-> <<>>, root |-> <<>>]

\* the next call of parse on the same instance (unified.py:213-221): the
\* tree and the three context references are locals of
\* normalize_html_to_tree (normalize.py:46-49) and the list of changes is a
\* local of _extract_changes_from_tree; the instance keeps units_db only
NewDocument ==
    /\ pc \in {"extract", "parse"}
    /\ parses + 1 < MaxDocs
    /\ parses' = parses + 1
    /\ blog' \in BOOLEAN
    /\ doc' = <<>>
    /\ nodes' = FreshTree.nodes
    /\ root_items' = FreshTree.root
    /\ current_section' = 0
    /\ current_race' = 0
    /\ current_entity' = 0
    /\ pc' = "normalize"
    /\ runs' = <<>>
    /\ logs' = <<>>
    /\ detected' = None
    /\ parsed' = <<>>
    /\ UNCHANGED <<call, units_db, html_dir, logger, selected,
                   skip_existing, next_patch>>

NextSession == Next \/ NewDocument

SpecSession == Init /\ [][NextSession]_vars

----------------------------------------------------------------------------
(* The download stage and the file selection of the parse stage *)

\* the characters of the file names, in the order of their code points
CodePoints == "-.0123456789_abcdefghijklmnopqrstuvwxyz"

Digits == {Char("0123456789", i) : i \in 1..10}

\* the place of the first occurrence of k in s at or after `from`, else 0
IndexOf(s, k, from) ==
    LET is == {i \in from..(Len(s) - Len(k) + 1) :
                  SubSeq(s, i, i + Len(k) - 1) = k}
    IN  IF is = {} THEN 0 ELSE CHOOSE i \in is : \A j \in is : i <= j

\* Python: s.replace(old, new)
RECURSIVE Replace(_, _, _)
Replace(s, old, new) ==
    IF Len(s) < Len(old) THEN s
    ELSE IF StartsWith(s, old)
    THEN new \o Replace(SubSeq(s, Len(old) + 1, Len(s)), old, new)
    ELSE Char(s, 1) \o Replace(SubSeq(s, 2, Len(s)), old, new)

\* Python: s.strip("/")
RECURSIVE StripSlashes(_)
StripSlashes(s) ==
    IF s /= "" /\ Char(s, 1) = "/" THEN StripSlashes(SubSeq(s, 2, Len(s)))
    ELSE IF s /= "" /\ Char(s, Len(s)) = "/"
    THEN StripSlashes(SubSeq(s, 1, Len(s) - 1))
    ELSE s

\* Python: s.split("/")[-1]
RECURSIVE LastPart(_)
LastPart(s) ==
    IF IndexOf(s, "/", 1) = 0 THEN s
    ELSE LastPart(SubSeq(s, IndexOf(s, "/", 1) + 1, Len(s)))

\* urlparse(url).path of a URL without query and fragment
url_path(url) ==
    LET a     == IndexOf(url, "://", 1)
        host  == IF a = 0 THEN 1 ELSE a + 3
        slash == IndexOf(url, "/", host)
    IN  IF slash = 0 THEN "" ELSE SubSeq(url, slash, Len(url))

\* extraction.py:12-30 (download.py:265-280 is the same function)
url_to_filename(url) ==
    Replace(Replace(LastPart(StripSlashes(url_path(url))),
                    "-patch-notes", ""),
            "_patch_notes", "")

\* data/patch_urls.json: version, url and additional_urls of every patch
PatchUrls ==
    << [version |-> "4.0",
        url |-> "https://news.blizzard.com/sc2/starcraft-ii-4-0-patch-notes",
        additional_urls |-> <<>>],
       [version |-> "4.4.0",
        url |-> "https://news.blizzard.com/sc2/starcraft-ii-4-4-0-patch-notes/",
        additional_urls |->
            <<"https://news.blizzard.com/sc2/balance-update-a",
              "https://news.blizzard.com/sc2/balance-update-b">>] >>

\* str(index) for the indexes of the additional URLs
IndexStr(i) == Char("0123456789", i + 1)

\* 1_download.py:70: the name of the file of an additional URL
additional_filename(version, index) ==
    version \o "_additional_" \o IndexStr(index)

\* the files an earlier run of the download stage can have left
OldFiles ==
    UNION {{url_to_filename(PatchUrls[n].url)}
           \cup {additional_filename(PatchUrls[n].version, i - 1) :
                   i \in 1..Len(PatchUrls[n].additional_urls)} :
           n \in 1..Len(PatchUrls)}

\* what reading, fetching and converting one page can come to: all is
\* well, fetch_html or validate_patch_html raises (download.py:318-321),
\* extract_metadata raises (312, 324), or the conversion to Markdown
\* raises after the HTML file has been written (331-336)
Outcomes == {"ok", "fetch_error", "metadata_error", "markdown_error"}

\* download.py:283-343.  The result: was DownloadError raised, and the
\* directory afterwards
download_patch(url, dir, skip, outcome) ==
    LET filename == url_to_filename(url)
    IN  IF skip /\ filename \in dir
        THEN [raised |-> outcome = "metadata_error", dir |-> dir]
        ELSE IF outcome \in {"fetch_error", "metadata_error"}
        THEN [raised |-> TRUE, dir |-> dir]
        ELSE IF outcome = "markdown_error"
        THEN [raised |-> TRUE, dir |-> dir \cup {filename}]
        ELSE [raised |-> FALSE, dir |-> dir \cup {filename}]

\* 1_download.py:56-85 for every additional URL of a patch (116-123);
\* fetched holds the indexes of the URLs whose fetch succeeds
download_additional_urls(patch, dir, skip, fetched) ==
    dir \cup {additional_filename(patch.version, i - 1) :
                i \in {j \in 1..Len(patch.additional_urls) :
                         /\ ~(skip /\ additional_filename(patch.version, j - 1)
                                        \in dir)
                         /\ j \in fetched}}

\* 1_download.py:88-137
process_patch(patch, dir, skip, log, outcome, fetched) ==
    LET d == download_patch(patch.url, dir, skip, outcome)
    IN  IF d.raised
        THEN [raised |-> TRUE, dir |-> d.dir, logger |-> log]
        ELSE [raised |-> FALSE,
              dir |-> download_additional_urls(patch, d.dir, skip, fetched),
              logger |->
                  IF skip /\ url_to_filename(patch.url) \in d.dir
                  THEN [log EXCEPT !.skipped = Append(@, patch.version)]
                  ELSE [log EXCEPT !.successful = Append(@, patch.version)]]

\* 1_download.py:168-182, one iteration of main's loop over the patches
DownloadLoop ==
    /\ next_patch <= Len(PatchUrls)
    /\ \E outcome \in Outcomes :
       \E fetched \in SUBSET (1..Len(PatchUrls[next_patch].additional_urls)) :
       \E r \in {process_patch(PatchUrls[next_patch], html_dir, skip_existing,
                               logger, outcome, fetched)} :
           /\ html_dir' = r.dir
           /\ logger' = IF r.raised
                        THEN [r.logger EXCEPT !.failed =
                                 Append(@, PatchUrls[next_patch].version)]
                        ELSE r.logger
    /\ next_patch' = next_patch + 1
    /\ UNCHANGED <<blog, doc, nodes, root_items, current_section,
                   current_race, current_entity, pc, runs, logs, detected,
                   parsed, call, units_db, parses, selected, skip_existing>>

\* a < b in the order of str
RECURSIVE LessStr(_, _)
LessStr(a, b) ==
    IF b = "" THEN FALSE
    ELSE IF a = "" THEN TRUE
    ELSE IF Char(a, 1) = Char(b, 1)
    THEN LessStr(SubSeq(a, 2, Len(a)), SubSeq(b, 2, Len(b)))
    ELSE IndexOf(CodePoints, Char(a, 1), 1) < IndexOf(CodePoints, Char(b, 1), 1)

\* list.sort() of a set of file names
RECURSIVE Sorted(_)
Sorted(fs) ==
    IF fs = {} THEN <<>>
    ELSE LET least == CHOOSE f \in fs : \A g \in fs \ {f} : LessStr(f, g)
         IN  <<least>> \o Sorted(fs \ {least})

\* version_pattern.search(stem) for the pattern
\* (^|[^0-9])<version_dashed>($|[^0-9]) (2_parse.py:84-87)
version_pattern_search(version_dashed, stem) ==
    \E i \in 1..(Len(stem) - Len(version_dashed) + 1) :
        LET j == i + Len(version_dashed) - 1
        IN  /\ SubSeq(stem, i, j) = version_dashed
            /\ i = 1 \/ Char(stem, i - 1) \notin Digits
            /\ j = Len(stem) \/ Char(stem, j + 1) \notin Digits

\* 2_parse.py:64-115.  The result is the set of the lists the call can
\* return: glob yields the files in the order of the directory, which is
\* arbitrary, so [:1] can keep any of the files that match by version.
find_html_files_for_patch(dir, version, url) ==
    LET expected_filename == IF url /= None THEN url_to_filename(url) ELSE None
        version_dashed == Replace(version, ".", "-")
        mains == {stem \in dir : ~Contains(stem, "_additional_")}
        url_matched_files ==
            {stem \in mains :
                expected_filename /= None /\ stem = expected_filename}
        version_matched_files ==
            {stem \in mains \ url_matched_files :
                version_pattern_search(version_dashed, stem)}
        additional_files ==
            Sorted({stem \in dir :
                      StartsWith(stem, version \o "_additional_")})
    IN  IF url_matched_files /= {}
        THEN {<<f>> \o additional_files : f \in url_matched_files}
        ELSE IF version_matched_files /= {}
        THEN {<<f>> \o additional_files : f \in version_matched_files}
        ELSE {additional_files}

\* 2_parse.py:140-141: the parse stage, run after the download stage, looks
\* for the files of one patch
FindHtml ==
    /\ next_patch > Len(PatchUrls)
    /\ \E n \in 1..Len(PatchUrls) :
       \E files \in find_html_files_for_patch(html_dir, PatchUrls[n].version,
                                              PatchUrls[n].url) :
           selected' = [version |-> PatchUrls[n].version,
                        url |-> PatchUrls[n].url, files |-> files]
    /\ UNCHANGED <<blog, doc, nodes, root_items, current_section,
                   current_race, current_entity, pc, runs, logs, detected,
                   parsed, call, units_db, parses, html_dir, logger,
                   skip_existing, next_patch>>

\* a download run starts on the directory that earlier runs have left
InitPipeline ==
    /\ InitParser
    /\ html_dir \in SUBSET OldFiles
    /\ logger = NoLog
    /\ selected = NoFind
    /\ skip_existing \in BOOLEAN
    /\ next_patch = 1

NextPipeline == DownloadLoop \/ FindHtml

SpecPipeline == InitPipeline /\ [][NextPipeline]_vars

----------------------------------------------------------------------------
(* The pure functions, each called once on a text made of a few words *)

RECURSIVE Join(_)
Join(words) ==
    IF Len(words) = 1 THEN words[1] ELSE words[1] \o " " \o Join(Tail(words))

Texts(words) == {Join(ws) : ws \in SeqsUpTo(words, MaxWords)}

HeaderWords ==
    {"Balance", "BUG", "Fixes", "Co-op", "coop", "Versus", "General", "Notes"}

ChangeWords ==
    {"Widow Mine", "WIDOW MINE", "mine", "Marine", "marauder", "Hydralisk",
     "range", "icon"}

\* a call of _detect_section_type (unified.py:29-42)
Classify ==
    /\ call = NoCall
    /\ \E text \in Texts(HeaderWords) :
           call' = [fn |-> "detect_section_type", arg |-> <<text>>,
                    ret |-> detect_section_type(text)]
    /\ UNCHANGED <<blog, doc, nodes, root_items, current_section,
                   current_race, current_entity, pc, runs, logs, detected,
                   parsed, units_db, parses, html_dir, logger, selected,
                   skip_existing, next_patch>>

\* a call of detect_entity_from_text
Resolve ==
    /\ call = NoCall
    /\ \E text \in Texts(ChangeWords), race \in Races :
           call' = [fn |-> "detect_entity_from_text", arg |-> <<text, race>>,
                    ret |-> detect_entity_from_text(text, race)]
    /\ UNCHANGED <<blog, doc, nodes, root_items, current_section,
                   current_race, current_entity, pc, runs, logs, detected,
                   parsed, units_db, parses, html_dir, logger, selected,
                   skip_existing, next_patch>>

NextCalls == Classify \/ Resolve

SpecCalls == Init /\ [][NextCalls]_vars

----------------------------------------------------------------------------
(* Vocabulary of the properties *)

Ids == 1..Len(nodes)

Leaves == {n \in Ids : nodes[n].type = "change"}

Range(q) == {q[i] : i \in 1..Len(q)}

\* the list an item is in: 0 for root_items, else the item whose child it is
ListOf(n) ==
    IF n \in Range(root_items) THEN 0
    ELSE CHOOSE m \in Ids : n \in Range(nodes[m].children)

Passes == 1..Len(runs)

\* the visits of pass r that ended with the given fate
Fated(r, fates) == {v \in logs[r] : v.fate \in fates}

\* document order on places: p comes before q
Before(p, q) ==
    \E i \in 1..Len(q) :
        /\ \A j \in 1..(i - 1) : j <= Len(p) /\ p[j] = q[j]
        /\ \/ Len(p) = i - 1
           \/ Len(p) >= i /\ p[i] < q[i]

----------------------------------------------------------------------------
(* C1 *)

\* the category of the nearest section above an item of the tree
RECURSIVE SectionAbove(_)
SectionAbove(n) ==
    IF ListOf(n) = 0 THEN UNKNOWN
    ELSE IF nodes[ListOf(n)].type = "section"
    THEN detect_section_type(nodes[ListOf(n)].text)
    ELSE SectionAbove(ListOf(n))

\* C1: in every pass of the tree extractor no emitted RawChange carries the
\* category bug_fixes or coop, no leaf whose nearest section is of one of
\* these two categories is emitted, and the section filter drops a leaf only
\* under one of these two categories (never under versus/balance, general
\* or unknown).
C1_SectionFilter ==
    \A r \in Passes :
        /\ \A k \in 1..Len(runs[r]) : runs[r][k].section \notin {BUG_FIXES, COOP}
        /\ \A n \in Leaves :
              SectionAbove(n) \in {BUG_FIXES, COOP}
                  => \A k \in 1..Len(runs[r]) : runs[r][k].src /= nodes[n].src
        /\ \A v \in logs[r] :
              /\ v.node \in Leaves /\ v.section \in {BUG_FIXES, COOP}
                    => v.fate /= "emit"
              /\ v.fate = "section" => v.section \in {BUG_FIXES, COOP}

\* a pass in which the section filter dropped a leaf under bug_fixes while
\* another leaf was emitted under versus/balance
C1_Witness ==
    \E r \in Passes :
        /\ \E v \in Fated(r, {"section"}) : v.section = BUG_FIXES
        /\ \E v \in Fated(r, {"emit"}) : v.section = VERSUS_BALANCE

----------------------------------------------------------------------------
(* C2 *)

\* the header texts of the document side of the properties
IsHeading(el) == el.name \in {"h2", "h3", "h4"}

\* the label of a list item that has a label and a nested list
LabelOf(el) ==
    IF el.name = "li" /\ el.item[1].strong /= <<>> /\ el.item[1].ul /= <<>>
    THEN <<Strip(el.item[1].strong[1])>> ELSE <<>>

\* a header that opens a section: a heading or a list label that the
\* section classifier knows
IsSectionHeader(el) ==
    \/ IsHeading(el) /\ detect_section_type(Strip(el.text)) /= UNKNOWN
    \/ LabelOf(el) /= <<>> /\ detect_section_type(LabelOf(el)[1]) /= UNKNOWN

\* a race named by an H2 or H3 heading or by the label of a list item
NamesRace(el) ==
    \/ el.name \in {"h2", "h3"} /\ Strip(el.text) \in race_names
    \/ LabelOf(el) /= <<>> /\ LabelOf(el)[1] \in race_names

\* element e lies after a "Bug Fixes" header, before the next section
\* header, and a race is named in between
UnderBugFixes(e) ==
    \E h \in 1..(e - 1) :
        /\ IsHeading(doc[h]) /\ Strip(doc[h].text) = "Bug Fixes"
        /\ \A j \in (h + 1)..e : ~IsSectionHeader(doc[j])
        /\ \E j \in (h + 1)..e : NamesRace(doc[j])

\* C2: no change listed after a "Bug Fixes" header that is followed by a
\* race name (as a list label or as an H2 or H3 heading), and before the
\* next section header, appears in the output of parse.
C2_BugFixesExcluded ==
    Len(runs) >= 1 =>
        \A k \in 1..Len(runs[1]) : ~UnderBugFixes(runs[1][k].src[1])

----------------------------------------------------------------------------
(* C3 *)

\* C3: in every pass the number of RawChanges emitted is the number of
\* Change leaves of the tree minus the leaves dropped by the UI keyword
\* filter or by the section filter.
C3_Conservation ==
    \A r \in Passes :
        Len(runs[r]) =
            Cardinality(Leaves)
            - Cardinality({n \in Leaves :
                             \E v \in Fated(r, {"ui", "section"}) : v.node = n})

----------------------------------------------------------------------------
(* C4 *)

\* C4: in every pass, two items of the same list (the root list or the
\* children of one item) are met under the same faction, section category
\* and entity: what is done for an item does not reach its later siblings.
C4_ScopedContext ==
    \A r \in Passes : \A v, w \in logs[r] :
        ListOf(v.node) = ListOf(w.node) =>
            /\ v.race = w.race
            /\ v.section = w.section
            /\ v.entity = w.entity

----------------------------------------------------------------------------
(* C5 *)

\* C5: the output of parse lists the changes in the order of their list
\* items in the document.
C5_DocumentOrder ==
    Len(runs) >= 1 =>
        \A k, l \in 1..Len(runs[1]) :
            k < l => Before(runs[1][k].src, runs[1][l].src)

----------------------------------------------------------------------------
(* C6 *)

\* C6: a second extraction pass over the same tree returns the list the
\* first pass returned.
C6_SamePassTwice == Len(runs) >= 2 => runs[2] = runs[1]

----------------------------------------------------------------------------
(* C7 *)

\* C7: after every element processed by the normalizer, and after
\* extraction, every item of type change has no children.
C7_ChangeIsLeaf == \A n \in Leaves : nodes[n].children = <<>>

\* an entity is open and holds a change, and a further change has been
\* added after that one
C7_Witness ==
    /\ current_entity /= 0
    /\ \E n \in Range(nodes[current_entity].children) :
          /\ n \in Leaves
          /\ \E m \in Leaves : m > n

----------------------------------------------------------------------------
(* C8 *)

ElemIds == 1..Len(doc)

\* the places of the non-empty items below a list item, down to `depth`
\* further levels of nesting
RECURSIVE ItemPlaces(_, _, _)
ItemPlaces(li, path, depth) ==
    (IF get_text(li) /= "" THEN {path} ELSE {})
    \cup (IF depth = 0 \/ li.ul = <<>> THEN {}
          ELSE UNION {ItemPlaces(li.ul[1][i], path \o <<i>>, depth - 1) :
                        i \in 1..Len(li.ul[1])})

\* C8: every non-empty item of a top-level list, and every non-empty item
\* nested in it one or two levels deeper, has an item of the tree made from
\* it; a top-level item without nested list is a change.
C8_ItemsRepresented ==
    \A e \in ElemIds :
        doc[e].name = "li" =>
            /\ \A p \in ItemPlaces(doc[e].item[1], <<e>>, 2) :
                  \E n \in Ids : nodes[n].src = p
            /\ doc[e].item[1].ul = <<>> /\ get_text(doc[e].item[1]) /= ""
                  => \E n \in Leaves : nodes[n].src = <<e>>

----------------------------------------------------------------------------
(* C9 *)

\* the element a step of the normalizer visits
Visited == doc'[Len(doc')]

VisitStep == pc = "normalize" /\ Len(doc') = Len(doc) + 1

\* C9: a race heading (H2 or H3) makes a race item that becomes a child of
\* the open section when one is open, and goes to the root only otherwise.
C9_RaceUnderSection ==
    [][ (/\ VisitStep
         /\ Visited.name \in {"h2", "h3"}
         /\ Strip(Visited.text) \in race_names)
        => LET id == Len(nodes) + 1
           IN  /\ Len(nodes') = id
               /\ nodes'[id].type = "race"
               /\ IF current_section /= 0
                  THEN /\ id \in Range(nodes'[current_section].children)
                       /\ id \notin Range(root_items')
                  ELSE id \in Range(root_items') ]_vars

----------------------------------------------------------------------------
(* C10 *)

\* the text of a heading, or of the emphasized label of a paragraph
HeaderText(el) ==
    IF IsHeading(el) THEN <<Strip(el.text)>>
    ELSE IF el.name = "p" /\ el.b /= <<>> THEN <<Strip(el.b[1])>>
    ELSE <<>>

\* C10: a heading or emphasized paragraph label that the section classifier
\* maps to a category other than unknown makes a section item, which
\* becomes the open section, and closes the open race and entity.
C10_SectionHeading ==
    [][ (/\ VisitStep
         /\ HeaderText(Visited) /= <<>>
         /\ detect_section_type(HeaderText(Visited)[1]) /= UNKNOWN)
        => LET id == Len(nodes) + 1
           IN  /\ Len(nodes') = id
               /\ nodes'[id].type = "section"
               /\ current_section' = id
               /\ current_race' = 0
               /\ current_entity' = 0 ]_vars

----------------------------------------------------------------------------
(* C11 *)

\* the text is Terran, Protoss or Zerg in some letter case
IsRaceName(text) == ToLower(text) \in {"terran", "protoss", "zerg"}

\* the H2 and H3 headings of the page whose text is a race name
RaceHeadings ==
    {e \in ElemIds : doc[e].name \in {"h2", "h3"} /\ IsRaceName(ElemText(doc[e]))}

\* C11: every H2 or H3 heading whose text is Terran, Protoss or Zerg in any
\* letter case makes a race item in the normalizer's tree, and a page with
\* such a heading is given one of the two race-header tags by detect_pattern.
C11_RaceAnyCase ==
    /\ \A e \in RaceHeadings :
          \E n \in Ids : nodes[n].src = <<e>> /\ nodes[n].type = "race"
    /\ (detected /= None /\ RaceHeadings /= {})
          => detected \in {"direct_h2", "h3_race"}

----------------------------------------------------------------------------
(* C12 *)

\* the list item at a place of the document
RECURSIVE ItemAtPath(_, _)
ItemAtPath(li, path) ==
    IF path = <<>> THEN li ELSE ItemAtPath(li.ul[1][Head(path)], Tail(path))

ItemAt(src) == ItemAtPath(doc[src[1]].item[1], Tail(src))

\* the text of the list item a RawChange was made from, as the page has it
PageText(c) == get_text(ItemAt(c.src))

\* the part of a text after its first n characters
After(text, n) == SubSeq(text, n + 1, Len(text))

\* C12: every RawChange returned by parse whose list item's text begins with
\* a race name followed by more text carries that text without the race name,
\* and an entity id of the race named by the prefix, whatever race is open.
C12_PrefixOverrides ==
    Len(runs) >= 1 =>
        \A k \in 1..Len(runs[1]) :
            LET c == runs[1][k]
                p == RacePrefix(PageText(c))
            IN  (p /= 0 /\ Len(PageText(c)) > Len(race_map[p][1]))
                => /\ c.raw_text = Strip(After(PageText(c), Len(race_map[p][1])))
                   /\ StartsWith(c.entity_id, race_map[p][2] \o "-")

----------------------------------------------------------------------------
(* C13 *)

\* C13: for a page without the content container no call returns a list of
\* RawChanges (the failure is reported instead): an empty list returned by
\* parse, by a later extraction pass or by a pattern parser means that the
\* container was found.
C13_ContainerMissing ==
    /\ \A r \in Passes : runs[r] = <<>> => blog
    /\ parsed /= <<>> =>
          \A name \in Parsers : parsed[name].changes = <<>> => blog

----------------------------------------------------------------------------
(* C14 *)

\* the four layouts detect_pattern looks for, as the page shows them
LayoutDirectH2 ==
    \E e \in ElemIds :
        doc[e].name = "h2" /\ Strip(doc[e].text) \in {"Terran", "Protoss", "Zerg"}

LayoutH3Race ==
    \E e \in ElemIds :
        doc[e].name = "h3" /\ Strip(doc[e].text) \in {"Terran", "Protoss", "Zerg"}

LayoutPEntity ==
    \E e \in ElemIds :
        /\ doc[e].name = "p" /\ doc[e].b /= <<>>
        /\ Strip(doc[e].b[1]) /= "" /\ Len(Strip(doc[e].b[1])) < 30
        /\ ~StartsWith(Strip(doc[e].b[1]), "We")
        /\ e + 1 \in ElemIds /\ doc[e + 1].name = "li"

RECURSIVE HoldsStrong(_)
HoldsStrong(li) ==
    \/ li.strong /= <<>>
    \/ li.ul /= <<>> /\ \E k \in 1..Len(li.ul[1]) : HoldsStrong(li.ul[1][k])

LayoutStrong ==
    \E e \in ElemIds : doc[e].name = "li" /\ HoldsStrong(doc[e].item[1])

NoLayout ==
    blog /\ ~LayoutDirectH2 /\ ~LayoutH3Race /\ ~LayoutPEntity /\ ~LayoutStrong

----------------------------------------------------------------------------
(* C15 *)

\* no name of the catalog, of any faction, occurs in the text
Nameless(text) == \A race \in Races : NamesIn(text, race) = {}

\* the leaf's own text, and the label of the entity item it hangs under if
\* there is one, name nothing the catalog knows
Unmatched(n) ==
    /\ Nameless(get_text(ItemAt(nodes[n].src)))
    /\ (ListOf(n) /= 0 /\ nodes[ListOf(n)].type = "entity")
          => Nameless(nodes[ListOf(n)].text)

\* the leaf is kept by the keyword filters and lies under no bug-fix or
\* co-op section
PassesFilters(n) ==
    /\ ~ContainsAny(ToLower(get_text(ItemAt(nodes[n].src))),
                    ui_patterns \cup bug_fix_patterns)
    /\ SectionAbove(n) \in {VERSUS_BALANCE, GENERAL, UNKNOWN}

\* C15: every Change leaf whose entity cannot be matched in the catalog and
\* which passes the keyword filters and the section filter is in the output
\* of parse, with the id <faction>-unknown.
C15_UnresolvedEmitted ==
    Len(runs) >= 1 =>
        \A n \in Leaves :
            (Unmatched(n) /\ PassesFilters(n))
            => \E k \in 1..Len(runs[1]) :
                  /\ runs[1][k].src = nodes[n].src
                  /\ EndsWith(runs[1][k].entity_id, "-unknown")

----------------------------------------------------------------------------
(* C16 *)

\* the rules of the classifier, in their order
Rules ==
    << [kws |-> {"bug", "fix"},        cat |-> BUG_FIXES],
       [kws |-> {"co-op", "coop"},     cat |-> COOP],
       [kws |-> {"versus", "balance"}, cat |-> VERSUS_BALANCE],
       [kws |-> {"general"},           cat |-> GENERAL] >>

RuleMatches(i, text) == \E kw \in Rules[i].kws : Contains(ToLower(text), kw)

FirstRule(text) ==
    IF \E i \in 1..Len(Rules) : RuleMatches(i, text)
    THEN Rules[CHOOSE i \in 1..Len(Rules) :
                  /\ RuleMatches(i, text)
                  /\ \A j \in 1..(i - 1) : ~RuleMatches(j, text)].cat
    ELSE UNKNOWN

\* C16: _detect_section_type returns the category of the first rule, in the
\* order bug fix, co-op, versus balance, general, one of whose keywords
\* occurs in the text in any letter case, and unknown when there is none; a
\* text that holds "bug" or "fix" is a bug-fix header whatever else it holds.
C16_FirstRuleWins ==
    call.fn = "detect_section_type" =>
        /\ call.ret = FirstRule(call.arg[1])
        /\ (\/ Contains(ToLower(call.arg[1]), "bug")
            \/ Contains(ToLower(call.arg[1]), "fix")) => call.ret = BUG_FIXES

\* a header with a balance keyword and a bug-fix keyword, classified
C16_Witness ==
    /\ call.fn = "detect_section_type"
    /\ Contains(ToLower(call.arg[1]), "balance")
    /\ Contains(ToLower(call.arg[1]), "fix")
    /\ call.ret = BUG_FIXES

----------------------------------------------------------------------------
(* C19 *)

\* name b occurs in name a and is shorter, letter case aside
ProperSubname(b, a) ==
    Len(b) < Len(a) /\ Contains(ToLower(a), ToLower(b))

\* the records of a faction whose name occurs in the text, letter case aside
Occurring(text, race) ==
    {e \in Catalog : e.race = race /\ Contains(ToLower(text), ToLower(e.name))}

\* C19: when a name A of the faction occurs in the text, resolve does not
\* return the id of a name B of the faction that is a proper substring of
\* A; it returns the id of a longest name of the faction that occurs.
C19_LongestMatch ==
    call.fn = "detect_entity_from_text" =>
        LET text == call.arg[1]
            race == call.arg[2]
        IN  /\ \A A, B \in Occurring(text, race) :
                  ProperSubname(B.name, A.name) => call.ret /= B.id
            /\ Occurring(text, race) /= {} =>
                  \E A \in Occurring(text, race) :
                      /\ call.ret = A.id
                      /\ \A B \in Occurring(text, race) :
                            Len(B.name) <= Len(A.name)

\* "Widow Mine" in capitals under terran, where "Mine" occurs too
C19_Witness ==
    /\ call.fn = "detect_entity_from_text"
    /\ call.arg = <<"WIDOW MINE range", "terran">>
    /\ call.ret = "terran-widow_mine"

----------------------------------------------------------------------------
(* C17 *)

----------------------------------------------------------------------------
(* C18 *)

\* the item, or an item nested in it, holds an emphasized label and a
\* nested list
RECURSIVE HoldsLabelAndList(_)
HoldsLabelAndList(li) ==
    \/ li.strong /= <<>> /\ li.ul /= <<>>
    \/ li.ul /= <<>> /\ \E k \in 1..Len(li.ul[1]) : HoldsLabelAndList(li.ul[1][k])

LayoutNestedEmphasis ==
    \E e \in ElemIds : doc[e].name = "li" /\ HoldsLabelAndList(doc[e].item[1])

\* C18: detect_pattern returns "nested_strong" only for a page with a list
\* item that holds an emphasized label and a nested list; a page without
\* such an item that shows none of the three earlier layouts gets "unknown".
C18_NestedEmphasisOnly ==
    (blog /\ detected /= None) =>
        /\ detected = "nested_strong" => LayoutNestedEmphasis
        /\ (/\ ~LayoutDirectH2 /\ ~LayoutH3Race /\ ~LayoutPEntity
            /\ ~LayoutNestedEmphasis) => detected = "unknown"

----------------------------------------------------------------------------
(* C20 *)

\* the ids of the catalog and the sentinels of the four factions
ValidIds == {e.id : e \in Catalog} \cup {race \o "-unknown" : race \in Races}

\* C20: every entity_id in a list returned by the tree extractor or by a
\* pattern parser is an id of the catalog or <faction>-unknown.
C20_IdsFromCatalog ==
    /\ \A r \in Passes : \A k \in 1..Len(runs[r]) :
          runs[r][k].entity_id \in ValidIds
    /\ parsed /= <<>> =>
          \A name \in Parsers : \A k \in 1..Len(parsed[name].changes) :
              parsed[name].changes[k].entity_id \in ValidIds

\* a page on which the paragraph parser emits a change under a label of the
\* catalog and the nested-label parser emits a sentinel for a label that the
\* catalog does not know
C20_Witness ==
    /\ parsed /= <<>>
    /\ parsed["p_entity"].changes /= <<>>
    /\ \E k \in 1..Len(parsed["nested_strong"].changes) :
          parsed["nested_strong"].changes[k].entity_id = "neutral-unknown"

----------------------------------------------------------------------------
(* C21 *)

\* the element of the current document that a path of places starts at
FromThisDocument(src) == src[1] \in 1..Len(doc)

\* C21: over the successive documents parsed by one instance, the catalog of
\* the instance stays the one it was built with, every node of the tree and
\* every emitted change comes from an element of the document being parsed,
\* and before the first element of a document is visited nothing is open and
\* nothing has been produced, as for a fresh instance.
C21_NoCarryOver ==
    /\ units_db = Catalog
    /\ \A n \in 1..Len(nodes) : FromThisDocument(nodes[n].src)
    /\ \A r \in 1..Len(runs) : \A k \in 1..Len(runs[r]) :
          FromThisDocument(runs[r][k].src)
    /\ (doc = <<>> /\ pc = "normalize") =>
          /\ nodes = <<>> /\ root_items = <<>>
          /\ current_section = 0 /\ current_race = 0 /\ current_entity = 0
          /\ runs = <<>> /\ logs = <<>>
          /\ detected = None /\ parsed = <<>>

\* the second document of an instance has been parsed with a result, after a
\* first one
C21_Witness ==
    /\ parses = 1
    /\ Len(runs) >= 1
    /\ runs[1] /= <<>>

----------------------------------------------------------------------------
(* C22 *)

\* the last H2 before element i, 0 when there is none
LastH2(i) ==
    LET hs == {j \in 1..(i - 1) : doc[j].name = "h2"}
    IN  IF hs = {} THEN 0 ELSE CHOOSE j \in hs : \A k \in hs : k <= j

\* an H2 whose text is a race name of the direct-race-header parser
IsRaceH2(j) == doc[j].name = "h2" /\ ElemText(doc[j]) \in title_race_names

\* a non-empty item of a top-level list whose last H2 is a race H2
ItemUnderRaceH2(i) ==
    /\ doc[i].name = "li"
    /\ get_text(doc[i].item[1]) /= ""
    /\ LastH2(i) /= 0
    /\ IsRaceH2(LastH2(i))

----------------------------------------------------------------------------
(* C23 *)

\* a non-empty top-level list item without a nested list
PlainItem(el) ==
    /\ el.name = "li"
    /\ el.item[1].ul = <<>>
    /\ get_text(el.item[1]) /= ""

\* the innermost open node: the open entity, else the open race, else the
\* open section, else 0 for the root list
InnermostOpen ==
    IF current_entity /= 0 THEN current_entity
    ELSE IF current_race /= 0 THEN current_race
    ELSE IF current_section /= 0 THEN current_section
    ELSE 0

\* C23: a plain list item becomes one new change leaf with the item's text,
\* appended to the children of the open entity if one is open, otherwise of
\* the open race, otherwise of the open section, otherwise to the root list;
\* the open references are nodes of these kinds and no other list changes.
C23_PlainItemParent ==
    [][ (VisitStep /\ PlainItem(Visited)) =>
          LET id == Len(nodes) + 1
              p  == InnermostOpen
          IN  /\ current_entity /= 0 => nodes[current_entity].type = "entity"
              /\ current_race /= 0 => nodes[current_race].type = "race"
              /\ current_section /= 0 =>
                    nodes[current_section].type = "section"
              /\ Len(nodes') = id
              /\ nodes'[id].type = "change"
              /\ nodes'[id].text = get_text(Visited.item[1])
              /\ nodes'[id].children = <<>>
              /\ \A m \in Ids \ {p} : nodes'[m].children = nodes[m].children
              /\ IF p = 0
                 THEN root_items' = Append(root_items, id)
                 ELSE /\ root_items' = root_items
                      /\ nodes'[p].children = Append(nodes[p].children, id) ]_vars

\* the item visited last is a plain one and its leaf is the last child of
\* the open race, no entity being open
C23_Witness ==
    /\ pc = "normalize"
    /\ Len(doc) >= 2
    /\ PlainItem(doc[Len(doc)])
    /\ current_entity = 0
    /\ current_race /= 0
    /\ nodes[current_race].children /= <<>>
    /\ nodes[current_race].children[Len(nodes[current_race].children)]
          = Len(nodes)
    /\ nodes[Len(nodes)].type = "change"

----------------------------------------------------------------------------
(* C24 *)

\* the leaf of the tree made from the list item at a place
LeafAt(src) == CHOOSE n \in Leaves : nodes[n].src = src

\* the nearest entity above an item of the tree, 0 when there is none
RECURSIVE EntityAbove(_)
EntityAbove(n) ==
    IF ListOf(n) = 0 THEN 0
    ELSE IF nodes[ListOf(n)].type = "entity" THEN ListOf(n)
    ELSE EntityAbove(ListOf(n))

\* the ids a label can resolve to: under one of the three factions, or as
\* the catalog's record of that name when no faction is open
LabelIds(label) ==
    {detect_entity_from_text(label, race) : race \in Races \ {"neutral"}}
    \cup {e.id : e \in {c \in Catalog : c.name = label}}

\* C24: in every pass, a change emitted for a leaf below an entity carries an
\* id resolved for that entity's label; a change emitted for a leaf with no
\* entity above it carries the id resolved from its own text.
C24_EntityContextWins ==
    \A r \in Passes : \A k \in 1..Len(runs[r]) :
        LET c == runs[r][k]
            e == EntityAbove(LeafAt(c.src))
        IN  IF e /= 0
            THEN c.entity_id \in LabelIds(nodes[e].text)
            ELSE \E race \in Races :
                    c.entity_id = detect_entity_from_text(c.raw_text, race)

\* a change is emitted below an entity with the entity's id although its own
\* text names another entity of the same faction
C24_Witness ==
    \E r \in Passes : \E k \in 1..Len(runs[r]) :
        LET c == runs[r][k]
            e == EntityAbove(LeafAt(c.src))
        IN  /\ e /= 0
            /\ c.entity_id = "terran-marauder"
            /\ detect_entity_from_text(c.raw_text, "terran") = "terran-marine"

----------------------------------------------------------------------------
(* C25 *)

\* the four pattern-specific parsers
PatternParsers == {"direct_h2", "h3_race", "p_entity", "nested_strong"}

\* the two categories that are not balance content
ExcludedSections == {BUG_FIXES, COOP}

\* element i comes after an H2 of an excluded category, with no other H2
\* in between
UnderExcludedH2(i) ==
    /\ LastH2(i) /= 0
    /\ detect_section_type(ElemText(doc[LastH2(i)])) \in ExcludedSections

\* C25: no pattern-specific parser emits a RawChange whose category is
\* bug_fixes or coop, and none emits a change for a list item whose last H2
\* is classified bug_fixes or coop.
C25_PatternParsersFilter ==
    parsed /= <<>> =>
        \A name \in PatternParsers :
            \A k \in 1..Len(parsed[name].changes) :
                LET c == parsed[name].changes[k]
                IN  /\ c.section \notin ExcludedSections
                    /\ ~UnderExcludedH2(c.src[1])

----------------------------------------------------------------------------
(* C26 *)

\* C26: when detect_pattern returns the tag of a pattern-specific parser,
\* the can_parse of the parser of that name accepts the same page.
C26_DetectedParserAccepts ==
    (parsed /= <<>> /\ detected \in PatternParsers) =>
        parsed[detected].can_parse

----------------------------------------------------------------------------
(* C27 *)

\* the kinds of the children of an item of the tree
ChildTypes(n) == {nodes[m].type : m \in Range(nodes[n].children)}

\* the items above an item of the tree
RECURSIVE Ancestors(_)
Ancestors(n) ==
    IF ListOf(n) = 0 THEN {} ELSE {ListOf(n)} \cup Ancestors(ListOf(n))

\* C27: after every element processed, the children of an entity are all
\* changes, the children of a race are all entities or changes, and no
\* section or race lies below a race or an entity.
C27_TreeShape ==
    \A n \in Ids :
        /\ nodes[n].type = "entity" => ChildTypes(n) \subseteq {"change"}
        /\ nodes[n].type = "race" =>
              ChildTypes(n) \subseteq {"entity", "change"}
        /\ nodes[n].type \in {"section", "race"} =>
              \A a \in Ancestors(n) : nodes[a].type \notin {"race", "entity"}

\* a race that holds an entity with a change, and a change of its own
C27_Witness ==
    \E n \in Ids :
        /\ nodes[n].type = "race"
        /\ ChildTypes(n) = {"entity", "change"}
        /\ \E m \in Range(nodes[n].children) :
              nodes[m].type = "entity" /\ nodes[m].children /= <<>>

----------------------------------------------------------------------------
(* C28 *)

\* C28: no list returned by the tree extractor or by the nested-emphasis
\* parser holds a RawChange whose text is empty.
C28_NonEmptyText ==
    /\ \A r \in Passes : \A k \in 1..Len(runs[r]) : runs[r][k].raw_text /= ""
    /\ parsed /= <<>> =>
          \A k \in 1..Len(parsed["nested_strong"].changes) :
              parsed["nested_strong"].changes[k].raw_text /= ""

----------------------------------------------------------------------------
(* C29 *)

\* the stem holds the version as a whole dashed number: not as the tail or
\* the head or the middle of a longer one
NamesVersion(stem, version_dashed) ==
    \E i \in 1..(Len(stem) - Len(version_dashed) + 1) :
        LET j == i + Len(version_dashed) - 1
        IN  /\ SubSeq(stem, i, j) = version_dashed
            /\ i = 1 \/ Char(stem, i - 1) \notin Digits
            /\ j = Len(stem) \/ Char(stem, j + 1) \notin Digits
            /\ ~(i > 2 /\ Char(stem, i - 1) = "-"
                       /\ Char(stem, i - 2) \in Digits)
            /\ ~(j + 2 <= Len(stem) /\ Char(stem, j + 1) = "-"
                                    /\ Char(stem, j + 2) \in Digits)

\* the files of the directory that are not additional ones
MainFiles == {stem \in html_dir : ~Contains(stem, "_additional_")}

\* C29: when the file named after the patch's URL is in the directory it is
\* the main file returned; a main file returned for its version alone holds
\* exactly the requested version, never a longer version that ends with or
\* contains the requested digits.
C29_ExactVersionMatch ==
    selected /= NoFind =>
        LET expected == url_to_filename(selected.url)
        IN  /\ expected \in MainFiles =>
                  /\ selected.files /= <<>>
                  /\ selected.files[1] = expected
            /\ (/\ selected.files /= <<>>
                /\ selected.files[1] \in MainFiles
                /\ selected.files[1] /= expected) =>
                  NamesVersion(selected.files[1],
                               Replace(selected.version, ".", "-"))

----------------------------------------------------------------------------
(* C30 *)

\* the patch that the loop of the download stage is at
ThisPatch == PatchUrls[next_patch]

\* the loop has just recorded its patch in the given list of the logger
Recorded(list) ==
    /\ next_patch' = next_patch + 1
    /\ Len(logger'[list]) = Len(logger[list]) + 1

\* C30: in the download stage, for either value of skip_existing, a patch is
\* recorded as skipped only if its HTML file was in the directory before the
\* patch was processed, and a patch whose HTML file was written during the
\* run, without an error, is recorded as successful.
C30_SkipOnlyExisting ==
    [][ /\ Recorded("skipped") =>
              url_to_filename(ThisPatch.url) \in html_dir
        /\ (/\ next_patch' = next_patch + 1
            /\ url_to_filename(ThisPatch.url) \notin html_dir
            /\ url_to_filename(ThisPatch.url) \in html_dir'
            /\ logger'.failed = logger.failed) =>
              Recorded("successful") ]_vars

====
